---- MODULE Spec2Model ----
(***************************************************************************)
(* Model of the storage package of Image-nexus: the ImageStorage interface *)
(* with its two implementations, localImageStorage and s3ImageStorage.     *)
(*                                                                         *)
(* An upload is a multipart.FileHeader: a filename and a byte stream.      *)
(* Save validates the stream (prefix read, http.DetectContentType, header  *)
(* decode through CONTENT_DECODERS), persists it under a generated key and *)
(* returns a dto.PictureRequest or a dto.InvalidPictureFileError.  Get     *)
(* reads an object back by key.                                            *)
(***************************************************************************)
EXTENDS Integers, Sequences, FiniteSets, TLC

\* ------------------------------------------------------------------------
\* Bounds of the model
\* ------------------------------------------------------------------------

\* total number of Save calls in one behaviour (names handed out); all of
\* them may be in flight at once
MaxSaves == 2

\* largest number of bytes io.Copy writes before a failing write
MaxPartial == 1

\* ------------------------------------------------------------------------
\* Program constants
\* ------------------------------------------------------------------------

\* make([]byte, 512): the size of the sniff buffer
SniffLen == 512

StatusBadRequest == 400

StatusInternalServerError == 500

\* ------------------------------------------------------------------------
\* Byte streams.  A stream is head \o (pad + chunks * 2^30 copies of fill):
\* the leading bytes are kept one by one and a long uniform tail is kept as
\* a count, in two limbs, so that an upload of 2^31 bytes and more is a
\* value the model checker can hold (its integers are 32 bits wide).
\* ------------------------------------------------------------------------

Min(a, b) == IF a < b THEN a ELSE b

Max(a, b) == IF a < b THEN b ELSE a

Chunk == 1024 * 1024 * 1024

Bytes(head, fill, pad, chunks) ==
    [head |-> head, fill |-> IF pad = 0 /\ chunks = 0 THEN 0 ELSE fill,
     pad |-> pad, chunks |-> chunks]

NoBytes == Bytes(<<>>, 0, 0, 0)

\* the length of b is LenChunks(b) * 2^30 + LenRem(b)
LenChunks(b) == b.chunks + ((Len(b.head) + b.pad) \div Chunk)

LenRem(b) == (Len(b.head) + b.pad) % Chunk

\* the length of b is at least k (k below 2^30)
AtLeast(b, k) == b.chunks > 0 \/ Len(b.head) + b.pad >= k

IsEmpty(b) == ~AtLeast(b, 1)

ByteAt(b, i) == IF i <= Len(b.head) THEN b.head[i] ELSE b.fill

\* the bytes of b from offset pos (0-based) to the end: what a reader
\* positioned at pos still delivers
Rest(b, pos) ==
    IF pos <= Len(b.head)
    THEN Bytes(SubSeq(b.head, pos + 1, Len(b.head)), b.fill, b.pad, b.chunks)
    ELSE LET k == pos - Len(b.head)
         IN  IF k <= b.pad THEN Bytes(<<>>, b.fill, b.pad - k, b.chunks)
             ELSE IF b.chunks > 0 THEN Bytes(<<>>, b.fill, b.pad + Chunk - k, b.chunks - 1)
             ELSE NoBytes

\* the first n bytes of b (n below 2^30)
Prefix(b, n) ==
    IF n <= Len(b.head)
    THEN Bytes(SubSeq(b.head, 1, n), 0, 0, 0)
    ELSE Bytes(b.head, b.fill,
               IF b.chunks > 0 THEN n - Len(b.head) ELSE Min(b.pad, n - Len(b.head)), 0)

\* byte-for-byte equality of two streams, whatever their representation
SameBytes(a, b) ==
    /\ LenChunks(a) = LenChunks(b)
    /\ LenRem(a) = LenRem(b)
    /\ \A i \in 1..(Max(Len(a.head), Len(b.head)) + 1) :
          AtLeast(a, i) => ByteAt(a, i) = ByteAt(b, i)

\* int32(x) of the int64 x = chunks * 2^30 + rem: two's-complement
\* truncation to 32 bits
ToInt32(chunks, rem) ==
    LET c == chunks % 4
    IN  IF c < 2 THEN c * Chunk + rem ELSE (c - 4) * Chunk + rem

\* the 32-bit value x is the number chunks * 2^30 + rem
IsNumber(x, chunks, rem) == chunks < 2 /\ x = chunks * Chunk + rem

\* ------------------------------------------------------------------------
\* File names: sequences of one-character strings
\* ------------------------------------------------------------------------

\* filepath.Ext: the suffix beginning at the final dot, empty if none
Ext(name) ==
    LET dots == {i \in 1..Len(name) : name[i] = "."}
    IN  IF dots = {} THEN <<>>
        ELSE SubSeq(name, CHOOSE i \in dots : \A j \in dots : j <= i, Len(name))

\* ------------------------------------------------------------------------
\* http.DetectContentType (net/http sniff.go), restricted to the signatures
\* the uploads of this model can match: the image signatures, PDF, and the
\* text / binary fallback.  Go's sniffer has no signature for image/tiff.
\* ------------------------------------------------------------------------

HasPrefix(data, sig) ==
    /\ Len(data) >= Len(sig)
    /\ \A i \in 1..Len(sig) : data[i] = sig[i]

\* "RIFF????WEBPVP" under the mask FF FF FF FF 00 00 00 00 FF FF FF FF FF FF
WebpSig(data) ==
    /\ Len(data) >= 14
    /\ SubSeq(data, 1, 4) = <<82, 73, 70, 70>>
    /\ SubSeq(data, 9, 14) = <<87, 69, 66, 80, 86, 80>>

IsWS(b) == b \in {9, 10, 12, 13, 32}

\* textSig: a byte of the data after the leading whitespace is binary
IsBinaryByte(b) ==
    \/ b <= 8
    \/ b = 11
    \/ (14 <= b /\ b <= 26)
    \/ (28 <= b /\ b <= 31)

FirstNonWS(data) ==
    LET S == {i \in 1..Len(data) : ~IsWS(data[i])}
    IN  IF S = {} THEN Len(data)
        ELSE (CHOOSE i \in S : \A j \in S : i <= j) - 1

DetectContentType(data) ==
    LET d == IF Len(data) > SniffLen THEN SubSeq(data, 1, SniffLen) ELSE data
        ws == FirstNonWS(d)
    IN  IF HasPrefix(d, <<37, 80, 68, 70, 45>>) THEN "application/pdf"
        ELSE IF HasPrefix(d, <<66, 77>>) THEN "image/bmp"
        ELSE IF HasPrefix(d, <<71, 73, 70, 56, 55, 97>>) THEN "image/gif"
        ELSE IF HasPrefix(d, <<71, 73, 70, 56, 57, 97>>) THEN "image/gif"
        ELSE IF WebpSig(d) THEN "image/webp"
        ELSE IF HasPrefix(d, <<137, 80, 78, 71, 13, 10, 26, 10>>) THEN "image/png"
        ELSE IF HasPrefix(d, <<255, 216, 255>>) THEN "image/jpeg"
        ELSE IF \A i \in (ws + 1)..Len(d) : ~IsBinaryByte(d[i]) THEN "text/plain; charset=utf-8"
        ELSE "application/octet-stream"

\* ------------------------------------------------------------------------
\* CONTENT_DECODERS: the registry of header decoders.  Each DecodeConfig of
\* the image libraries is modelled by the layout of the header it parses:
\* the number of leading bytes it needs and where the dimensions sit.  It
\* fails with an unexpected EOF when the stream ends inside the header.
\* ------------------------------------------------------------------------

Layout(len, w, h, n, le, mod, nonzero) ==
    [len |-> len, w |-> w, h |-> h, n |-> n, le |-> le, mod |-> mod, nonzero |-> nonzero]

CONTENT_DECODERS ==
    [t \in {"image/jpeg", "image/png", "image/gif", "image/tiff", "image/webp", "image/bmp"} |->
        CASE t = "image/jpeg" -> Layout(15, 10, 8, 2, FALSE, 65536, FALSE)
          [] t = "image/png"  -> Layout(33, 17, 21, 4, FALSE, 0, TRUE)
          [] t = "image/gif"  -> Layout(13, 7, 9, 2, TRUE, 65536, FALSE)
          [] t = "image/tiff" -> Layout(38, 19, 31, 4, TRUE, 0, FALSE)
          [] t = "image/webp" -> Layout(30, 27, 29, 2, TRUE, 16384, FALSE)
          [] t = "image/bmp"  -> Layout(54, 19, 23, 4, TRUE, 0, FALSE)]

RECURSIVE Field(_, _, _, _)
\* the unsigned integer held in the n bytes of b starting at byte off (1-based)
Field(b, off, n, le) ==
    IF n = 0 THEN 0
    ELSE IF le THEN ByteAt(b, off) + 256 * Field(b, off + 1, n - 1, le)
         ELSE ByteAt(b, off + n - 1) + 256 * Field(b, off, n - 1, le)

\* a four-byte dimension with its top bit set: negative as an int32, which
\* the decoders reject
Negative(b, off, n, le) ==
    n = 4 /\ ByteAt(b, IF le THEN off + 3 ELSE off) >= 128

\* a dimension field: the bits the format keeps of it
Dimension(b, off, L) ==
    IF L.mod = 0 THEN Field(b, off, L.n, L.le) ELSE Field(b, off, L.n, L.le) % L.mod

\* decoder(src) with src positioned at byte zero; ioFault is a read error of
\* the stream while the header is parsed.  pos is the stream position the
\* decoder leaves behind.
Decode(fileType, body, ioFault) ==
    LET L == CONTENT_DECODERS[fileType]
        W == Dimension(body, L.w, L)
        H == Dimension(body, L.h, L)
    IN  IF \/ ioFault
           \/ ~AtLeast(body, L.len)
           \/ Negative(body, L.w, L.n, L.le)
           \/ Negative(body, L.h, L.n, L.le)
           \/ (L.nonzero /\ (W = 0 \/ H = 0))
        THEN [ok |-> FALSE, Width |-> 0, Height |-> 0,
              pos |-> IF AtLeast(body, L.len) THEN L.len ELSE LenRem(body)]
        ELSE [ok |-> TRUE, Width |-> W, Height |-> H, pos |-> L.len]

\* ------------------------------------------------------------------------
\* Results of Save
\* ------------------------------------------------------------------------

NoPicture ==
    [Name |-> <<>>, Destination |-> <<>>, Height |-> 0, Width |-> 0, Size |-> 0, ContentType |-> ""]

\* dto.PictureRequest as Save builds it
PictureRequest(file, destination, cfg, fileType) ==
    [Name        |-> file.Filename,
     Destination |-> destination,
     Height      |-> ToInt32(cfg.Height \div Chunk, cfg.Height % Chunk),
     Width       |-> ToInt32(cfg.Width \div Chunk, cfg.Width % Chunk),
     Size        |-> ToInt32(LenChunks(file.body), LenRem(file.body)),
     ContentType |-> fileType]

\* dto.InvalidPictureFileError; at names the return statement (a ghost
\* field), Data is <<>> for an absent Data and <<format>> for gin.H{"format": format}
InvalidPictureFileError(at, status, data) ==
    [ok |-> FALSE, at |-> at, StatusCode |-> status, Data |-> data, pic |-> NoPicture]

Success(pic) ==
    [ok |-> TRUE, at |-> "return", StatusCode |-> 0, Data |-> <<>>, pic |-> pic]

NoResult == [ok |-> FALSE, at |-> "", StatusCode |-> 0, Data |-> <<>>, pic |-> NoPicture]

NoConfig == [ok |-> FALSE, Width |-> 0, Height |-> 0, pos |-> 0]

\* src.Read(buffer) on a fresh stream: the 512-byte buffer after the read.
\* The bytes beyond those read keep the zero make() gave them.
ReadBuffer(body) ==
    [i \in 1..SniffLen |-> IF AtLeast(body, i) THEN ByteAt(body, i) ELSE 0]

\* src.Read at end of stream returns io.EOF: an empty upload fails the read
ReadFails(body, fault) == fault = "read" \/ IsEmpty(body)

Validation(err, fileType, cfg) ==
    [ok |-> FALSE, err |-> err, fileType |-> fileType, cfg |-> cfg]

Validated(fileType, cfg) ==
    [ok |-> TRUE, err |-> NoResult, fileType |-> fileType, cfg |-> cfg]

\* ------------------------------------------------------------------------
\* localImageStorage.Save up to the persistence step
\* ------------------------------------------------------------------------

LocalDecodeError_NoData(fileType) == InvalidPictureFileError("decode", StatusInternalServerError, <<>>)

LocalDecodeError(fileType) ==
    InvalidPictureFileError("decode", StatusInternalServerError, <<fileType>>)

LocalValidate(file, fault) ==
    IF fault = "open"
    THEN Validation(InvalidPictureFileError("open", StatusInternalServerError, <<>>), "", NoConfig)
    ELSE IF ReadFails(file.body, fault)
    THEN Validation(InvalidPictureFileError("read", StatusInternalServerError, <<>>), "", NoConfig)
    ELSE LET buffer == ReadBuffer(file.body)
             fileType == DetectContentType(buffer)
         IN  IF fileType \notin DOMAIN CONTENT_DECODERS
             THEN Validation(InvalidPictureFileError("sniff", StatusBadRequest, <<fileType>>), fileType, NoConfig)
             ELSE IF fault = "seek1"
             THEN Validation(InvalidPictureFileError("seek1", StatusInternalServerError, <<>>), fileType, NoConfig)
             ELSE LET imageConfig == Decode(fileType, file.body, fault = "decode")
                  IN  IF ~imageConfig.ok
                      THEN Validation(LocalDecodeError(fileType), fileType, imageConfig)
                      ELSE Validated(fileType, imageConfig)

\* ------------------------------------------------------------------------
\* s3ImageStorage.Save up to the persistence step
\* ------------------------------------------------------------------------

S3Validate(file, fault) ==
    IF fault = "open"
    THEN Validation(InvalidPictureFileError("open", StatusInternalServerError, <<>>), "", NoConfig)
    ELSE IF ReadFails(file.body, fault)
    THEN Validation(InvalidPictureFileError("read", StatusInternalServerError, <<>>), "", NoConfig)
    ELSE LET buf == ReadBuffer(file.body)
             contentType == DetectContentType(buf)
         IN  IF contentType \notin DOMAIN CONTENT_DECODERS
             THEN Validation(InvalidPictureFileError("sniff", StatusBadRequest, <<contentType>>), contentType, NoConfig)
             ELSE IF fault = "seek1"
             THEN Validation(InvalidPictureFileError("seek1", StatusInternalServerError, <<>>), contentType, NoConfig)
             ELSE LET imageCfg == Decode(contentType, file.body, fault = "decode")
                  IN  IF ~imageCfg.ok
                      THEN Validation(InvalidPictureFileError("decode", StatusInternalServerError, <<contentType>>), contentType, imageCfg)
                      ELSE IF fault = "seek2"
                      THEN Validation(InvalidPictureFileError("seek2", StatusInternalServerError, <<>>), contentType, imageCfg)
                      ELSE Validated(contentType, imageCfg)

\* ------------------------------------------------------------------------
\* The uploads of the model (multipart.FileHeader: Filename and the stream;
\* FileHeader.Size is the length of the stream)
\* ------------------------------------------------------------------------

FileHeader(name, body) == [Filename |-> name, body |-> body]

\* "GIF89a", logical screen 2 x 2, flags, background, aspect; then a trailer
GifHead == <<71, 73, 70, 56, 57, 97, 2, 0, 2, 0, 0, 0, 0, 59>>

Uploads ==
    { FileHeader(<<"a", ".", "g", "i", "f">>, Bytes(GifHead, 0, 0, 0)),
      FileHeader(<<"a", ".", "g", "i", "f">>, Bytes(SubSeq(GifHead, 1, 8), 0, 0, 0)),
      FileHeader(<<"c", "a", "t", ".", "p", "n", "g">>, Bytes(<<104, 105, 10>>, 0, 0, 0)),
      FileHeader(<<"c", "a", "t", ".", "p", "n", "g">>, Bytes(<<104, 105>>, 97, 600, 0)),
      FileHeader(<<"r", "a", "w">>, NoBytes),
      FileHeader(<<"b", ".", "g", "i", "f">>, Bytes(GifHead, 0, 56, 2)) }

NoFile == FileHeader(<<>>, NoBytes)

\* the step of a Save call that fails, if any; "create" exists in the Local
\* variant only
LocalFaults == {"none", "open", "read", "seek1", "decode", "create", "seek2"}

S3Faults == {"none", "open", "read", "seek1", "decode", "seek2"}

\* the validation of every upload under every fault, computed once
LocalValidations == [file \in Uploads, fault \in LocalFaults |-> LocalValidate(file, fault)]

S3Validations == [file \in Uploads, fault \in S3Faults |-> S3Validate(file, fault)]

\* ------------------------------------------------------------------------
\* State
\* ------------------------------------------------------------------------

VARIABLES
    backend,    \* the ImageStorage built at startup: kind, path, prefix
    objects,    \* the medium: full path / object key -> stored bytes
    issued,     \* number of names utils.NewUniqueString has handed out
    inflight,   \* Save calls that passed validation and are persisting
    saved,      \* ghost: the Save calls that returned a PictureRequest
    last        \* ghost: the call that returned last, its inputs and result

vars == <<backend, objects, issued, inflight, saved, last>>

\* ------------------------------------------------------------------------
\* Construction
\* ------------------------------------------------------------------------

NewStorage(path) == [kind |-> "local", path |-> path, prefix |-> <<>>]

NewS3Storage(rawPrefix) ==
    [kind   |-> "s3",
     path   |-> <<>>,
     prefix |-> IF rawPrefix # <<>> /\ rawPrefix[Len(rawPrefix)] # "/"
                THEN rawPrefix \o <<"/">>
                ELSE rawPrefix]

\* utils.NewUniqueString: the n-th name handed out; no name is handed out
\* twice and no name holds a dot
NewUniqueString(n) == [i \in 1..n |-> "u"]

\* destination := utils.NewUniqueString() + extension
Destination(unique, file) == unique \o Ext(file.Filename)

\* localImageStorage.GetFullPath
GetFullPath(destination) == backend.path \o <<"/">> \o destination

\* key := s.prefix + destination
S3Key(destination) == backend.prefix \o destination

NoObjects == [k \in {} |-> NoBytes]

Put(objs, k, v) == [x \in DOMAIN objs \cup {k} |-> IF x = k THEN v ELSE objs[x]]

NoLast ==
    [op |-> "none", file |-> NoFile, fault |-> "none", destination |-> <<>>,
     res |-> NoResult, bytes |-> NoBytes, isNil |-> TRUE, err |-> ""]

SaveReturned(file, fault, destination, res) ==
    [op |-> "Save", file |-> file, fault |-> fault, destination |-> destination,
     res |-> res, bytes |-> NoBytes, isNil |-> TRUE, err |-> ""]

GetReturned(destination, fault, bytes, isNil, err) ==
    [op |-> "Get", file |-> NoFile, fault |-> fault, destination |-> destination,
     res |-> NoResult, bytes |-> bytes, isNil |-> isNil, err |-> err]

Init ==
    /\ backend \in {NewStorage(<<"d">>)} \cup {NewS3Storage(p) : p \in {<<>>, <<"i">>, <<"i", "/">>}}
    /\ objects = NoObjects
    /\ issued = 0
    /\ inflight = {}
    /\ saved = {}
    /\ last = NoLast

\* ------------------------------------------------------------------------
\* localImageStorage.Save
\* ------------------------------------------------------------------------

LocalCreate_BeforeValidation(objs, fullPath, v, fault) ==
    IF fault \notin {"open", "create"} THEN Put(objs, fullPath, NoBytes) ELSE objs

\* os.Create(fullPath): reached only past validation; creates or truncates
LocalCreate(objs, fullPath, v, fault) ==
    IF v.ok /\ fault # "create" THEN Put(objs, fullPath, NoBytes) ELSE objs

\* the stream position io.Copy starts from: src.Seek(0, io.SeekStart) with
\* its error dropped, so a failed seek leaves the position the decoder left
CopyStart(cfg, fault) == IF fault = "seek2" THEN cfg.pos ELSE 0

\* first part of Save: name, validation, os.Create, the second seek
LocalSave(file, fault) ==
    /\ backend.kind = "local"
    /\ issued < MaxSaves
    /\ LET destination == Destination(NewUniqueString(issued + 1), file)
           fullPath == GetFullPath(destination)
           v == LocalValidations[file, fault]
       IN  /\ issued' = issued + 1
           /\ objects' = LocalCreate(objects, fullPath, v, fault)
           /\ IF ~v.ok
              THEN /\ last' = SaveReturned(file, fault, destination, v.err)
                   /\ inflight' = inflight
              ELSE IF fault = "create"
              THEN /\ last' = SaveReturned(file, fault, destination,
                                  InvalidPictureFileError("create", StatusInternalServerError, <<>>))
                   /\ inflight' = inflight
              ELSE /\ inflight' = inflight \cup
                          {[destination |-> destination, file |-> file, fault |-> fault,
                            fileType |-> v.fileType, cfg |-> v.cfg,
                            pos |-> CopyStart(v.cfg, fault)]}
                   /\ last' = last
    /\ UNCHANGED <<backend, saved>>

\* io.Copy(out, src): all the stream delivers from its position, or, when a
\* read or write fails, the n bytes written before the failure
LocalCopy(objs, fullPath, written, fails, n) ==
    Put(objs, fullPath, IF fails THEN Prefix(written, n) ELSE written)

\* second part of Save: io.Copy and the return
LocalSaveCopy(c, fails, n) ==
    /\ backend.kind = "local"
    /\ c \in inflight
    /\ LET written == Rest(c.file.body, c.pos)
           pic == PictureRequest(c.file, c.destination, c.cfg, c.fileType)
       IN  /\ AtLeast(written, n)
           /\ fails \/ n = 0
           /\ objects' = LocalCopy(objects, GetFullPath(c.destination), written, fails, n)
           /\ inflight' = inflight \ {c}
           /\ IF fails
              THEN /\ last' = SaveReturned(c.file, c.fault, c.destination,
                                  InvalidPictureFileError("copy", StatusInternalServerError, <<>>))
                   /\ saved' = saved
              ELSE /\ last' = SaveReturned(c.file, c.fault, c.destination, Success(pic))
                   /\ saved' = saved \cup {[pic |-> pic, file |-> c.file]}
    /\ UNCHANGED <<backend, issued>>

\* ------------------------------------------------------------------------
\* s3ImageStorage.Save
\* ------------------------------------------------------------------------

\* first part of Save: name, validation, the second seek
S3Save(file, fault) ==
    /\ backend.kind = "s3"
    /\ issued < MaxSaves
    /\ LET destination == Destination(NewUniqueString(issued + 1), file)
           v == S3Validations[file, fault]
       IN  /\ issued' = issued + 1
           /\ IF ~v.ok
              THEN /\ last' = SaveReturned(file, fault, destination, v.err)
                   /\ inflight' = inflight
              ELSE /\ inflight' = inflight \cup
                          {[destination |-> destination, file |-> file, fault |-> fault,
                            fileType |-> v.fileType, cfg |-> v.cfg, pos |-> 0]}
                   /\ last' = last
    /\ UNCHANGED <<backend, objects, saved>>

S3Upload_KeepOnError(objs, key, body, fails) == Put(objs, key, body)

\* s.uploader.Upload: the object appears under key whole, or, when the
\* upload fails, not at all
S3Upload(objs, key, body, fails) ==
    IF fails THEN objs ELSE Put(objs, key, body)

\* second part of Save: the upload and the return
S3SaveUpload(c, fails) ==
    /\ backend.kind = "s3"
    /\ c \in inflight
    /\ LET pic == PictureRequest(c.file, c.destination, c.cfg, c.fileType)
       IN  /\ objects' = S3Upload(objects, S3Key(c.destination), Rest(c.file.body, c.pos), fails)
           /\ inflight' = inflight \ {c}
           /\ IF fails
              THEN /\ last' = SaveReturned(c.file, c.fault, c.destination,
                                  InvalidPictureFileError("upload", StatusInternalServerError, <<>>))
                   /\ saved' = saved
              ELSE /\ last' = SaveReturned(c.file, c.fault, c.destination, Success(pic))
                   /\ saved' = saved \cup {[pic |-> pic, file |-> c.file]}
    /\ UNCHANGED <<backend, issued>>

\* ------------------------------------------------------------------------
\* Get
\* ------------------------------------------------------------------------

Result(bytes, isNil, err) == [bytes |-> bytes, isNil |-> isNil, err |-> err]

\* localImageStorage.Get: os.Open, then ioutil.ReadAll whose partial body is
\* returned together with its error
LocalGetResult(objs, fullPath, fault, n) ==
    IF fault = "open" \/ fullPath \notin DOMAIN objs
    THEN Result(NoBytes, TRUE, "open")
    ELSE IF fault = "read"
    THEN Result(Prefix(objs[fullPath], n), FALSE, "read")
    ELSE Result(objs[fullPath], FALSE, "")

LocalGet(destination, fault, n) ==
    /\ backend.kind = "local"
    /\ LET fullPath == GetFullPath(destination)
           r == LocalGetResult(objects, fullPath, fault, n)
       IN  /\ fault = "read" => fullPath \in DOMAIN objects
           /\ n = 0 \/ (fault = "read" /\ AtLeast(objects[fullPath], n))
           /\ last' = GetReturned(destination, fault, r.bytes, r.isNil, r.err)
    /\ UNCHANGED <<backend, objects, issued, inflight, saved>>

\* s.client.GetObject: the error of the call (code is the ErrorCode of an
\* API error, "" of an error that is none) and the body of the response
S3GetObject(objs, key, fault) ==
    IF fault = "transport" THEN [failed |-> TRUE, api |-> FALSE, code |-> "", body |-> NoBytes]
    ELSE IF fault = "denied" THEN [failed |-> TRUE, api |-> TRUE, code |-> "AccessDenied", body |-> NoBytes]
    ELSE IF key \notin DOMAIN objs THEN [failed |-> TRUE, api |-> TRUE, code |-> "NoSuchKey", body |-> NoBytes]
    ELSE [failed |-> FALSE, api |-> FALSE, code |-> "", body |-> objs[key]]

IsNoSuchKey_NotFound(resp) == resp.api /\ resp.code = "NotFound"

\* errors.As(err, &apiErr) && apiErr.ErrorCode() == "NoSuchKey"
IsNoSuchKey(resp) == resp.api /\ resp.code = "NoSuchKey"

\* s3ImageStorage.Get
S3GetResult(objs, key, fault) ==
    LET resp == S3GetObject(objs, key, fault)
    IN  IF resp.failed
        THEN IF IsNoSuchKey(resp)
             THEN Result(NoBytes, TRUE, "S3NotFoundError")
             ELSE Result(NoBytes, TRUE, "S3DownloadError")
        ELSE IF fault = "body"
        THEN Result(NoBytes, TRUE, "S3DownloadError")
        ELSE Result(resp.body, FALSE, "")

\* a fault of reading the body needs a response that has one
S3Get(destination, fault) ==
    /\ backend.kind = "s3"
    /\ fault = "body" => S3Key(destination) \in DOMAIN objects
    /\ LET r == S3GetResult(objects, S3Key(destination), fault)
       IN  last' = GetReturned(destination, fault, r.bytes, r.isNil, r.err)
    /\ UNCHANGED <<backend, objects, issued, inflight, saved>>

\* ------------------------------------------------------------------------
\* The system
\* ------------------------------------------------------------------------

\* the keys a caller may ask for: those of the PictureRequests returned so
\* far, the key of the call that returned last, and one no Save generated
Destinations ==
    {s.pic.Destination : s \in saved} \cup {last.destination, <<"z">>}

Next ==
    \/ \E file \in Uploads, fault \in LocalFaults : LocalSave(file, fault)
    \/ \E c \in inflight, fails \in BOOLEAN, n \in 0..MaxPartial : LocalSaveCopy(c, fails, n)
    \/ \E file \in Uploads, fault \in S3Faults : S3Save(file, fault)
    \/ \E c \in inflight, fails \in BOOLEAN : S3SaveUpload(c, fails)
    \/ \E d \in Destinations, fault \in {"none", "open", "read"}, n \in 0..MaxPartial : LocalGet(d, fault, n)
    \/ \E d \in Destinations, fault \in {"none", "transport", "denied", "body"} : S3Get(d, fault)

Spec == Init /\ [][Next]_vars

\* ------------------------------------------------------------------------
\* Vocabulary of the properties
\* ------------------------------------------------------------------------

Supported(t) == t \in DOMAIN CONTENT_DECODERS

\* the type each upload's 512-byte sniff buffer classifies as
SniffedType == [file \in Uploads |-> DetectContentType(ReadBuffer(file.body))]

\* the header decode of each upload that sniffs to a supported type
DecodedConfig ==
    [file \in Uploads |->
        IF Supported(SniffedType[file])
        THEN Decode(SniffedType[file], file.body, FALSE)
        ELSE NoConfig]

\* an upload of plain text: not empty, every byte a printable ASCII
\* character, a tab, a line feed or a carriage return
TextByte(b) == b \in {9, 10, 13} \/ (32 <= b /\ b <= 126)

PlainText(file) ==
    /\ ~IsEmpty(file.body)
    /\ \A i \in 1..(Len(file.body.head) + 1) :
          AtLeast(file.body, i) => TextByte(ByteAt(file.body, i))

\* what Get(destination) returns on the medium objs when nothing fails
GetIn(objs, destination) ==
    IF backend.kind = "local"
    THEN LocalGetResult(objs, GetFullPath(destination), "none", 0)
    ELSE S3GetResult(objs, S3Key(destination), "none")

GetNow(destination) == GetIn(objects, destination)

Resolvable(destination) == GetNow(destination).err = ""

NeverSaved(destination) == \A s \in saved : s.pic.Destination # destination

SaveFailedAt(l, steps) == l.op = "Save" /\ ~l.res.ok /\ l.res.at \in steps

ValidationSteps == {"open", "read", "sniff", "seek1", "decode", "seek2"}

\* ------------------------------------------------------------------------
\* Properties
\* ------------------------------------------------------------------------

\* C1: whenever Save has returned a PictureRequest, a Get of its Destination
\* succeeds and returns exactly the bytes of the upload, whatever happened
\* in the sniff, decode and stream-reset steps of that Save.
C1_RoundTrip ==
    (last.op = "Save" /\ last.res.ok) =>
        LET r == GetNow(last.res.pic.Destination)
        IN  r.err = "" /\ ~r.isNil /\ SameBytes(r.bytes, last.file.body)

\* C2: a Save whose stream opens and is read without an I/O fault, and
\* whose leading bytes do not sniff to a supported type (the empty upload
\* and uploads shorter than 512 bytes included), returns a 400 error whose
\* Data carries the detected, unsupported type.
C2_UnsupportedIsClientError ==
    (last.op = "Save" /\ last.fault = "none" /\ ~Supported(SniffedType[last.file])) =>
        /\ ~last.res.ok
        /\ last.res.StatusCode = StatusBadRequest
        /\ Len(last.res.Data) = 1
        /\ ~Supported(last.res.Data[1])

\* C3: a Save that fails in validation (open, prefix read, sniff, a stream
\* reset, header decode) leaves the stored objects as they were, and its
\* generated key is not resolvable by Get, then or later.
C3_ValidationFailureLeavesStore ==
    [][ /\ ( /\ issued' # issued
             /\ SaveFailedAt(last', ValidationSteps)
             /\ last'.destination = Destination(NewUniqueString(issued'), last'.file) )
            => objects' = objects
        /\ SaveFailedAt(last', ValidationSteps) => GetIn(objects', last'.destination).err # ""
      ]_vars

C3_Witness ==
    /\ SaveFailedAt(last, {"decode"})
    /\ saved # {}
    /\ ~Resolvable(last.destination)

\* C4: the Destinations of any two Saves that returned a PictureRequest
\* differ, and every such Destination is resolvable by Get to exactly the
\* bytes of its own upload, under every interleaving of the Save calls.
C4_DistinctKeysOwnContent ==
    \A s \in saved :
        /\ \A t \in saved : s # t => s.pic.Destination # t.pic.Destination
        /\ LET r == GetNow(s.pic.Destination)
           IN  r.err = "" /\ SameBytes(r.bytes, s.file.body)

\* C5 as claimed: after a Save that failed in its persistence step (Local
\* file create or copy, Remote upload) Get on the generated key fails.
C5_NoObjectAfterPersistenceFailure ==
    SaveFailedAt(last, {"create", "copy", "upload"}) => ~Resolvable(last.destination)

\* C5 as amended: after a Save that failed at the Local file create or at
\* the Remote upload, Get on the generated key fails; after a Save that
\* failed in the Local copy, the created file remains and Get on the
\* generated key succeeds.
C5_NoObjectUnlessCopyFailed ==
    /\ SaveFailedAt(last, {"create", "upload"}) => ~Resolvable(last.destination)
    /\ SaveFailedAt(last, {"copy"}) => Resolvable(last.destination)

C5_Witness ==
    /\ SaveFailedAt(last, {"copy"})
    /\ Resolvable(last.destination)
    /\ \E s \in saved : s.pic.Destination # last.destination

\* C6: a Remote Get that the medium answers with "no such key" (the key
\* was never saved) returns S3NotFoundError; every other failure of the
\* fetch or of reading the body returns S3DownloadError and is never
\* reported as S3NotFoundError; no failing Get returns bytes.
C6_S3GetErrorKinds ==
    (last.op = "Get" /\ backend.kind = "s3") =>
        /\ (last.fault = "none" /\ NeverSaved(last.destination)) => last.err = "S3NotFoundError"
        /\ last.fault # "none" => last.err = "S3DownloadError"
        /\ last.err = "S3NotFoundError" => NeverSaved(last.destination)
        /\ last.err # "" => last.isNil /\ last.bytes = NoBytes

C6_Witness ==
    /\ last.op = "Get"
    /\ backend.kind = "s3"
    /\ last.err = "S3NotFoundError"
    /\ saved # {}

\* C7: a Save whose upload sniffs to a supported type and whose header
\* decode fails returns a 500 error whose Data carries the detected type;
\* the Unsupported-format error is a 400, and the I/O failures are 500s
\* without Data.
C7_CorruptContentError ==
    last.op = "Save" =>
        /\ ( /\ last.fault \in {"none", "decode", "create", "seek2"}
             /\ Supported(SniffedType[last.file])
             /\ (last.fault = "decode" \/ ~DecodedConfig[last.file].ok) )
            => /\ SaveFailedAt(last, {"decode"})
               /\ last.res.StatusCode = StatusInternalServerError
               /\ last.res.Data = <<SniffedType[last.file]>>
        /\ SaveFailedAt(last, {"sniff"}) => last.res.StatusCode = StatusBadRequest
        /\ SaveFailedAt(last, {"open", "read", "seek1", "seek2", "create", "copy", "upload"})
            => last.res.StatusCode = StatusInternalServerError /\ last.res.Data = <<>>

C7_Witness ==
    /\ SaveFailedAt(last, {"decode"})
    /\ last.fault = "none"
    /\ Supported(SniffedType[last.file])
    /\ ~DecodedConfig[last.file].ok

\* C8: for every upload and every failing step among open, prefix read,
\* sniff, first reset, header decode and second reset, the Local and the
\* Remote Save agree: both go on to persist, or both fail at the same step
\* with the same status and the same presence of Data.
C8_SameOutcomeBeforePersistence ==
    (last.op = "Save" /\ last.fault \in S3Faults) =>
        LET l == LocalValidations[last.file, last.fault]
            r == S3Validations[last.file, last.fault]
        IN  /\ l.ok = r.ok
            /\ ~l.ok => /\ l.err.at = r.err.at
                        /\ l.err.StatusCode = r.err.StatusCode
                        /\ (l.err.Data = <<>>) = (r.err.Data = <<>>)

\* C9: a Save of a plain-text upload of any length, met by no I/O fault,
\* fails with the Unsupported-format error whose Data names text/plain.
C9_TextSniffsAsTextPlain ==
    (last.op = "Save" /\ last.fault = "none" /\ PlainText(last.file)) =>
        /\ SaveFailedAt(last, {"sniff"})
        /\ last.res.StatusCode = StatusBadRequest
        /\ last.res.Data = <<"text/plain; charset=utf-8">>

\* C10: the Size of every returned PictureRequest is the byte length of its
\* upload, and its Height and Width are the decoded dimensions and positive.
C10_SizeIsUploadLength ==
    (last.op = "Save" /\ last.res.ok) =>
        /\ IsNumber(last.res.pic.Size, LenChunks(last.file.body), LenRem(last.file.body))
        /\ last.res.pic.Height = DecodedConfig[last.file].Height
        /\ last.res.pic.Width = DecodedConfig[last.file].Width
        /\ last.res.pic.Height > 0
        /\ last.res.pic.Width > 0

====
